---- MODULE Spec2Model ----
(***************************************************************************)
(* A model of the agentic orchestration core of ai-dial-mcp-fundamentals:  *)
(*   agent/mcp_client.py   MCPClient   (session transport, catalog)        *)
(*   agent/dial_client.py  DialClient  (delta aggregator, dispatcher,      *)
(*                                      recursive completion loop)         *)
(*   agent/app.py          main        (startup and interactive loop)      *)
(*   agent/models/message.py Message                                       *)
(*                                                                         *)
(* Python values: a str is a TLA+ string; None is the string "None", which *)
(* no string of the model's input domains equals (it is also what an       *)
(* f-string prints for None).  A list is a sequence.  Message.tool_calls   *)
(* of None and of [] are both <<>>: the code only ever tests its truth.    *)
(***************************************************************************)
EXTENDS Integers, Sequences, FiniteSets, TLC

VARIABLES
    pc,              \* where main() / get_completion() stands
    session,         \* MCPClient.session
    streams_context, \* MCPClient._streams_context
    session_context, \* MCPClient._session_context
    stream_open,     \* the stream context is entered and its __aexit__ not yet called
    wrapper_open,    \* the ClientSession is entered and its __aexit__ not yet called
    exc,             \* an exception is leaving main()
    tools,           \* DialClient.tools
    messages,        \* the conversation history (app.py: messages)
    ai_message,      \* get_completion: ai_message of the running frame
    tc_i,            \* _call_tools: position of the for loop in ai_message.tool_calls
    calls,           \* log: the mcp_client.call_tool calls of the running turn
    turn_base,       \* log: messages when the running turn called get_completion
    streams,         \* log: the chunk streams the model returned in this turn
    await_cycles,    \* log: _stream_response calls of this turn
    dispatch_cycles, \* log: _call_tools calls of this turn
    returned,        \* log: what get_completion returned to main, or NoMessage
    turn_state,      \* log: "none", "running", "returned", "failed" or "cancelled"
    responses,       \* number of model requests made in the session (bounded)
    request,         \* log: the payload of the latest request to the model
    tool_deltas,     \* _collect_tool_calls: the argument (unit specification)
    tool_dict,       \* _collect_tool_calls: tool_dict when the loop has ended
    collected,       \* _collect_tool_calls: the returned list
    collect_pc,      \* "call" before _collect_tool_calls ran, "done" after
    initialized,     \* MCPClient: session.initialize() has returned
    closes,          \* log: calls of MCPClient.__aexit__
    session_exits,   \* log: calls of _session_context.__aexit__
    streams_exits,   \* log: calls of _streams_context.__aexit__
    requests,        \* log: the session operations asked of the provider
    failed,          \* log: the session operations that raised
    client_calls,    \* log: calls of the client's methods by a direct caller
    last_call,       \* log: the method a direct caller called last, and its result
    resources,       \* main: resources
    prompts,         \* main: prompts
    fault,           \* log: the operation whose exception left the async with body
    errors_printed,  \* log: the "[App] Error" lines main() has printed
    to_dict_self,    \* Message.to_dict: self (unit specification)
    to_dict_result,  \* Message.to_dict: the returned dict
    stream_chunks,   \* _stream_response: the chunks of the stream (unit specification)
    stream_result,   \* _stream_response: the returned Message
    unit_pc,         \* "call" before the unit's function ran, "done" after
    dial_api_key,    \* main: dial_api_key, os.environ.get("DIAL_API_KEY")
    azure_env_key    \* environment: the credential AsyncAzureOpenAI finds itself

appVars     == <<pc, session, streams_context, session_context, stream_open,
                 wrapper_open, exc, tools>>
turnVars    == <<messages, ai_message, tc_i, calls, turn_base, streams,
                 await_cycles, dispatch_cycles, returned, turn_state, responses,
                 request>>
collectVars == <<tool_deltas, tool_dict, collected, collect_pc>>
clientVars  == <<initialized, closes, session_exits, streams_exits, requests,
                 failed, client_calls, last_call>>
mainVars    == <<resources, prompts, fault, errors_printed>>
unitVars    == <<to_dict_self, to_dict_result, stream_chunks, stream_result,
                 unit_pc>>
envVars     == <<dial_api_key, azure_env_key>>
vars        == <<appVars, turnVars, collectVars, clientVars, mainVars, unitVars,
                 envVars>>

\* ------------------------------------------------------------------ bounds
MaxResponses == 2   \* model requests per session
\* nested get_completion calls the interpreter allows: sys.getrecursionlimit()
\* is 1000 frames by default, scaled down here
RecursionLimit == 2
MaxDeltas    == 3   \* tool-call deltas handed to _collect_tool_calls
MaxCloses    == 2   \* calls of MCPClient.__aexit__ by a direct caller
MaxClientCalls == 2 \* calls of the catalog and tool methods by a direct caller
MaxFragments == 2   \* tool-call deltas of two ids and two names handed to _collect_tool_calls
MaxChunks == 3      \* chunks of the stream _stream_response reads on its own

\* ------------------------------------------------------------ Python values
None == "None"

\* bool(x) of a str-or-None value
Truthy(x) == x # None /\ x # ""

\* ----------------------------------------------------- the delta aggregator
\* The value the defaultdict's factory builds for a missing key.
DefaultEntry ==
    [id |-> None, function |-> [arguments |-> "", name |-> None], type |-> None]

\* A dict is the sequence of its items in insertion order.
HasKey(d, k) == \E p \in 1..Len(d) : d[p].key = k

KeyPos(d, k) == CHOOSE p \in 1..Len(d) : d[p].key = k

\* tool_dict[idx] on a defaultdict: a missing key is inserted, last, on the read.
GetOrCreate(d, k) ==
    IF HasKey(d, k) THEN d ELSE Append(d, [key |-> k, val |-> DefaultEntry])

\* the aggregator keeping the first id an index was given
SetIdOnce(d, k, v) ==
    LET e == GetOrCreate(d, k)
    IN  IF e[KeyPos(e, k)].val.id = None
        THEN [e EXCEPT ![KeyPos(e, k)].val.id = v] ELSE e

SetId(d, k, v) ==
    LET e == GetOrCreate(d, k) IN [e EXCEPT ![KeyPos(e, k)].val.id = v]

SetName(d, k, v) ==
    LET e == GetOrCreate(d, k) IN [e EXCEPT ![KeyPos(e, k)].val.function.name = v]

\* the aggregator with "=" where the code has "+=": the last chunk wins
ReplaceArguments(d, k, v) ==
    LET e == GetOrCreate(d, k)
    IN  [e EXCEPT ![KeyPos(e, k)].val.function.arguments = v]

AddArguments(d, k, v) ==
    LET e == GetOrCreate(d, k)
    IN  [e EXCEPT ![KeyPos(e, k)].val.function.arguments = @ \o v]

SetType(d, k, v) ==
    LET e == GetOrCreate(d, k) IN [e EXCEPT ![KeyPos(e, k)].val.type = v]

\* One pass of the for loop of _collect_tool_calls.
DeltaStep(d, delta) ==
    LET idx == delta.index
        d1  == IF Truthy(delta.id) THEN SetId(d, idx, delta.id) ELSE d
        d2  == IF Truthy(delta.name) THEN SetName(d1, idx, delta.name) ELSE d1
        d3  == IF Truthy(delta.arguments)
               THEN AddArguments(d2, idx, delta.arguments) ELSE d2
        d4  == IF Truthy(delta.type) THEN SetType(d3, idx, delta.type) ELSE d3
    IN  d4

RECURSIVE ToolDict(_)
\* tool_dict after the for loop over tool_deltas.
ToolDict(deltas) ==
    IF deltas = <<>> THEN <<>>
    ELSE DeltaStep(ToolDict(SubSeq(deltas, 1, Len(deltas) - 1)), deltas[Len(deltas)])

\* list(tool_dict.values())
DictValues(d) == [p \in 1..Len(d) |-> d[p].val]

CollectToolCalls(deltas) == DictValues(ToolDict(deltas))

\* ------------------------------------------------------------------ Message
\* Message(role=..., content=..., tool_call_id=..., tool_calls=...); name is
\* never passed and keeps its default.
Message(role, content, tool_call_id, tool_calls) ==
    [role |-> role, content |-> content, tool_call_id |-> tool_call_id,
     name |-> None, tool_calls |-> tool_calls]

SYSTEM == "system"
USER   == "user"
AI     == "assistant"
TOOL   == "tool"

\* The first sentence stands for the whole text.
SYSTEM_PROMPT == "You are a professional User Management Agent."

\* No message: the value of a Message variable that holds nothing.
NoMessage == Message(None, None, None, <<>>)

\* ---------------------------------------------------------- Message.to_dict
\* The keys of the dict to_dict returns: role always, and each of content,
\* name, tool_call_id and tool_calls under its `if self.<field>:` test.
ToDictKeys(m) ==
    {"role"}
        \cup {k \in {"content", "name", "tool_call_id"} : Truthy(m[k])}
        \cup (IF m.tool_calls # <<>> THEN {"tool_calls"} ELSE {})

\* Message.to_dict(): a dict is the function from its keys to their values.
ToDict(m) == [k \in ToDictKeys(m) |-> m[k]]

\* "messages": [msg.to_dict() for msg in messages] of the request payload
SentMessages(history) == [p \in 1..Len(history) |-> ToDict(history[p])]

\* the request offering no tools once a tool result is in history
RequestWithoutToolsAfterDispatch(history, dial_tools) ==
    [model |-> "gpt-4o", messages |-> SentMessages(history),
     tools |-> IF \E p \in 1..Len(history) : history[p].role = TOOL
               THEN <<>> ELSE dial_tools,
     stream |-> TRUE]

\* The payload of chat.completions.create in _stream_response.
Request(history, dial_tools) ==
    [model |-> "gpt-4o", messages |-> SentMessages(history), tools |-> dial_tools,
     stream |-> TRUE]

\* No request has gone to the model yet.
NoRequest == [model |-> None, messages |-> <<>>, tools |-> <<>>, stream |-> FALSE]

\* ------------------------------------------------------ _stream_response
\* A chunk of the model's stream is chunk.choices[0].delta: its content and
\* its tool_calls (a list of tool-call deltas; None and [] are both <<>>).
Chunk(content, tool_calls) == [content |-> content, tool_calls |-> tool_calls]

\* A tool-call delta: .index, .id, .function.name, .function.arguments, .type
Delta(index, id, name, arguments, type) ==
    [index |-> index, id |-> id, name |-> name, arguments |-> arguments,
     type |-> type]

RECURSIVE StreamContent(_)
\* content after the async for: content += delta.content for each truthy one
StreamContent(chunks) ==
    IF chunks = <<>> THEN ""
    ELSE LET last == chunks[Len(chunks)]
             init == StreamContent(SubSeq(chunks, 1, Len(chunks) - 1))
         IN  IF Truthy(last.content) THEN init \o last.content ELSE init

RECURSIVE StreamToolDeltas(_)
\* tool_deltas after the async for: extended by each chunk's tool_calls
StreamToolDeltas(chunks) ==
    IF chunks = <<>> THEN <<>>
    ELSE StreamToolDeltas(SubSeq(chunks, 1, Len(chunks) - 1))
             \o chunks[Len(chunks)].tool_calls

\* _stream_response with content=content or None
StreamResponseMessageOrNone(chunks) ==
    LET deltas == StreamToolDeltas(chunks)
        content == StreamContent(chunks)
    IN  Message(AI, IF Truthy(content) THEN content ELSE None, None,
                IF deltas # <<>> THEN CollectToolCalls(deltas) ELSE <<>>)

\* _stream_response with content = delta.content where the code has +=
StreamResponseMessageLastText(chunks) ==
    LET deltas == StreamToolDeltas(chunks)
        HasText(chunk) == Truthy(chunk.content)
        texts == SelectSeq(chunks, HasText)
    IN  Message(AI, IF texts = <<>> THEN "" ELSE texts[Len(texts)].content, None,
                IF deltas # <<>> THEN CollectToolCalls(deltas) ELSE <<>>)

\* The Message _stream_response returns for a stream that ended normally.
StreamResponseMessage(chunks) ==
    LET deltas == StreamToolDeltas(chunks)
    IN  Message(AI, StreamContent(chunks), None,
                IF deltas # <<>> THEN CollectToolCalls(deltas) ELSE <<>>)

\* _stream_response going on from the content and tool_deltas of the call
\* before it
StreamResponseCarrying(previous, chunks) ==
    IF previous = <<>> THEN StreamResponseMessage(chunks)
    ELSE StreamResponseMessage(previous[Len(previous)] \o chunks)

\* The Message a call of _stream_response returns when the streams previous
\* were read by the calls before it: content = "" and tool_deltas = [] are
\* set anew by each call, and tool_dict is a local of _collect_tool_calls.
StreamResponseAfter(previous, chunks) == StreamResponseMessage(chunks)

\* ------------------------------------------------------------- json.loads
\* json.loads over the argument texts the model's streams can build: the
\* texts that are JSON documents, with the value each parses to (a dict is
\* the set of its items).  Every other text raises.
EmptyDict == {}

JsonDocuments ==
    ("{}" :> EmptyDict) @@ ("{\"id\":1}" :> {<<"id", 1>>})

JsonLoads(text) ==
    IF text \in DOMAIN JsonDocuments
    THEN [raised |-> FALSE, value |-> JsonDocuments[text]]
    ELSE [raised |-> TRUE, value |-> EmptyDict]

\* _call_tools passing the raw text on when parsing raised
ToolArgsKeepText(tool_call) ==
    LET parsed == JsonLoads(tool_call.function.arguments)
    IN  IF parsed.raised THEN {<<"arguments", tool_call.function.arguments>>}
        ELSE parsed.value

\* tool_args of _call_tools: the parsed arguments, {} when parsing raised
ToolArgs(tool_call) ==
    LET parsed == JsonLoads(tool_call.function.arguments)
    IN  IF parsed.raised THEN EmptyDict ELSE parsed.value

\* ------------------------------------------------- MCPClient.call_tool
\* What session.call_tool can answer: it raises, or returns content items.
TextItem(text) == [kind |-> "text", text |-> text, repr |-> "TextContent(" \o text \o ")"]

BlobItem == [kind |-> "image", text |-> None, repr |-> "ImageContent(...)"]

Reply(raises, error, content) ==
    [raises |-> raises, error |-> error, content |-> content]

ReplyText  == Reply(FALSE, None, <<TextItem("user 1: Ann"), TextItem("1 row")>>)
ReplyBlob  == Reply(FALSE, None, <<BlobItem>>)
ReplyEmpty == Reply(FALSE, None, <<>>)
ReplyError == Reply(TRUE, "user service unavailable", <<>>)
\* a tool that returns the empty text
ReplyBlank == Reply(FALSE, None, <<TextItem("")>>)

Replies == {ReplyText, ReplyBlob, ReplyEmpty, ReplyError, ReplyBlank}

NoReply == Reply(FALSE, None, <<>>)

Raise(e)  == [raised |-> TRUE, error |-> e, str |-> None]
Return(s) == [raised |-> FALSE, error |-> None, str |-> s]

NotConnected == "MCP client not connected. Call connect() first."

\* call_tool returning "" for a result without content instead of indexing it
CallToolResultEmptyOk(reply) ==
    IF reply.raises THEN Raise(reply.error)
    ELSE IF reply.content = <<>> THEN Return("")
    ELSE LET content == reply.content[1]
         IN  IF content.kind = "text" THEN Return(content.text)
             ELSE Return(content.repr)

\* call_tool taking tool_result[-1], the last content item
CallToolResultLastItem(reply) ==
    IF reply.raises THEN Raise(reply.error)
    ELSE IF reply.content = <<>> THEN Raise("list index out of range")
    ELSE LET content == reply.content[Len(reply.content)]
         IN  IF content.kind = "text" THEN Return(content.text)
             ELSE Return(content.repr)

\* call_tool after session.call_tool answered: tool_result[0], then its text
\* when it is a TextContent, else the item itself.  str is str(result).
CallToolResult(reply) ==
    IF reply.raises THEN Raise(reply.error)
    ELSE IF reply.content = <<>> THEN Raise("list index out of range")
    ELSE LET content == reply.content[1]
         IN  IF content.kind = "text" THEN Return(content.text)
             ELSE Return(content.repr)

\* the except branch's text
ErrorMsg(tool_name, e) == "Tool " \o tool_name \o " failed: " \o e

\* _call_tools whose except branch leaves tool_call_id out
ToolMsgNoIdOnError(tool_call, res) ==
    IF res.raised
    THEN Message(TOOL, ErrorMsg(tool_call.function.name, res.error), None, <<>>)
    ELSE Message(TOOL, res.str, tool_call.id, <<>>)

\* tool_msg of one pass of the for loop of _call_tools
ToolMsg(tool_call, res) ==
    IF res.raised
    THEN Message(TOOL, ErrorMsg(tool_call.function.name, res.error), tool_call.id, <<>>)
    ELSE Message(TOOL, res.str, tool_call.id, <<>>)

\* ------------------------------------------------ MCPClient.get_tools
\* A tool as session.list_tools() lists it.
McpTool(name, description, inputSchema) ==
    [name |-> name, description |-> description, inputSchema |-> inputSchema]

\* The DIAL (function calling) form of one listed tool.
DialTool(tool) ==
    [type |-> "function",
     function |-> [name |-> tool.name, description |-> tool.description,
                   parameters |-> tool.inputSchema]]

\* get_tools putting each tool in front of the ones before it
DialToolsNewestFirst(listed) ==
    [p \in 1..Len(listed) |-> DialTool(listed[Len(listed) + 1 - p])]

\* dial_tools of get_tools
DialTools(listed) == [p \in 1..Len(listed) |-> DialTool(listed[p])]

\* -------------------------------------------- MCPClient's methods as functions
\* What a method gives its caller: an exception, or a value.
Raised(e)   == [raised |-> TRUE, error |-> e, value |-> <<>>]
Returned(v) == [raised |-> FALSE, error |-> None, value |-> v]

\* What a session operation answers: it raises, or returns a value.
Answer(raises, value) == [raises |-> raises, value |-> value]

\* No session operation was asked.
NoAnswer == Answer(FALSE, <<>>)

\* How an exception of the session prints.
ProviderError == "provider error"

\* The RuntimeError text of get_resources, get_resource, get_prompts, get_prompt.
NotConnectedPlain == "MCP client not connected."

\* if not self.session: the method raises before it asks the session anything.
Refuses(sess) == sess = None

\* get_tools catching a failure of the listing, as get_resources does
GetToolsResultDegrading(sess, answer) ==
    IF Refuses(sess) THEN Raised(NotConnected)
    ELSE IF answer.raises THEN Returned(<<>>)
    ELSE Returned(DialTools(answer.value))

\* get_tools(): a failure of session.list_tools() leaves the method.
GetToolsResult(sess, answer) ==
    IF Refuses(sess) THEN Raised(NotConnected)
    ELSE IF answer.raises THEN Raised(ProviderError)
    ELSE Returned(DialTools(answer.value))

\* get_resources(): a failure of session.list_resources() is caught and gives [].
GetResourcesResult(sess, answer) ==
    IF Refuses(sess) THEN Raised(NotConnectedPlain)
    ELSE IF answer.raises THEN Returned(<<>>)
    ELSE Returned(answer.value)

\* get_prompts without its try
GetPromptsResultNoCatch(sess, answer) ==
    IF Refuses(sess) THEN Raised(NotConnectedPlain)
    ELSE IF answer.raises THEN Raised(ProviderError)
    ELSE Returned(answer.value)

\* get_prompts(): a failure of session.list_prompts() is caught and gives [].
GetPromptsResult(sess, answer) ==
    IF Refuses(sess) THEN Raised(NotConnectedPlain)
    ELSE IF answer.raises THEN Returned(<<>>)
    ELSE Returned(answer.value)

\* get_resource(uri): result.contents[0], its text or blob, else the item.
GetResourceResult(sess, answer) ==
    IF Refuses(sess) THEN Raised(NotConnectedPlain)
    ELSE IF answer.raises THEN Raised(ProviderError)
    ELSE IF answer.value = <<>> THEN Raised("list index out of range")
    ELSE LET content == answer.value[1]
         IN  IF content.kind = "text" THEN Returned(content.text)
             ELSE IF content.kind = "blob" THEN Returned(content.blob)
             ELSE Returned(content.repr)

RECURSIVE CombinedContent(_)
\* combined_content of get_prompt: the text of each message whose content is
\* a TextContent or a str, each followed by a newline.
CombinedContent(msgs) ==
    IF msgs = <<>> THEN ""
    ELSE LET message == msgs[Len(msgs)]
             init == CombinedContent(SubSeq(msgs, 1, Len(msgs) - 1))
         IN  IF message.content.kind \in {"text", "str"}
             THEN init \o message.content.text \o "\n"
             ELSE init

\* get_prompt(name)
GetPromptResult(sess, answer) ==
    IF Refuses(sess) THEN Raised(NotConnectedPlain)
    ELSE IF answer.raises THEN Raised(ProviderError)
    ELSE Returned(CombinedContent(answer.value))

\* call_tool(tool_name, tool_args), in the form of the other methods
CallToolMethodResult(sess, answer) ==
    IF Refuses(sess) THEN Raised(NotConnected)
    ELSE LET res == CallToolResult(Reply(answer.raises, ProviderError, answer.value))
         IN  IF res.raised THEN Raised(res.error) ELSE Returned(res.str)

\* ------------------------------------------------------------ environment
\* What the provider can list.
ProviderToolLists ==
    {<<>>,
     <<McpTool("get_user", "Get a user by id", "{id: integer}"),
       McpTool("search", "Search users", "{}")>>}

ProviderPromptLists ==
    {<<>>,
     <<[name |-> "search_helper", description |-> "How to search users"],
       [name |-> "profile_guide", description |-> None]>>}

ProviderResourceLists ==
    {<<>>,
     <<[uri |-> "users-management://flow-diagram", description |-> "Flow diagram"]>>}

\* What each session operation can answer.
ListToolsAnswers ==
    {Answer(FALSE, listed) : listed \in ProviderToolLists} \cup {Answer(TRUE, <<>>)}

ListResourcesAnswers ==
    {Answer(FALSE, listed) : listed \in ProviderResourceLists} \cup {Answer(TRUE, <<>>)}

ListPromptsAnswers ==
    {Answer(FALSE, listed) : listed \in ProviderPromptLists} \cup {Answer(TRUE, <<>>)}

ReadResourceAnswers ==
    {Answer(TRUE, <<>>),
     Answer(FALSE, <<>>),
     Answer(FALSE, <<[kind |-> "text", text |-> "flow", blob |-> None, repr |-> None]>>),
     Answer(FALSE, <<[kind |-> "blob", text |-> None, blob |-> "PNG", repr |-> None]>>)}

PromptSegment(role, kind, text) ==
    [role |-> role, content |-> [kind |-> kind, text |-> text]]

GetPromptAnswers ==
    {Answer(TRUE, <<>>),
     Answer(FALSE, <<>>),
     Answer(FALSE, <<PromptSegment("user", "text", "Search by name"),
                     PromptSegment("assistant", "image", None),
                     PromptSegment("user", "str", "then by email")>>)}

CallToolAnswers == {Answer(r.raises, r.content) : r \in Replies}

\* The methods a caller can call on the client, each with the session
\* operation it asks and the answers that operation can give.
ClientMethods ==
    {"get_tools", "get_resources", "get_prompts", "get_resource", "get_prompt",
     "call_tool"}

SessionOperation(method) ==
    CASE method = "get_tools"     -> "list_tools"
      [] method = "get_resources" -> "list_resources"
      [] method = "get_prompts"   -> "list_prompts"
      [] method = "get_resource"  -> "read_resource"
      [] method = "get_prompt"    -> "get_prompt"
      [] method = "call_tool"     -> "call_tool"

MethodAnswers(method) ==
    CASE method = "get_tools"     -> ListToolsAnswers
      [] method = "get_resources" -> ListResourcesAnswers
      [] method = "get_prompts"   -> ListPromptsAnswers
      [] method = "get_resource"  -> ReadResourceAnswers
      [] method = "get_prompt"    -> GetPromptAnswers
      [] method = "call_tool"     -> CallToolAnswers

MethodResult(method, sess, answer) ==
    CASE method = "get_tools"     -> GetToolsResult(sess, answer)
      [] method = "get_resources" -> GetResourcesResult(sess, answer)
      [] method = "get_prompts"   -> GetPromptsResult(sess, answer)
      [] method = "get_resource"  -> GetResourceResult(sess, answer)
      [] method = "get_prompt"    -> GetPromptResult(sess, answer)
      [] method = "call_tool"     -> CallToolMethodResult(sess, answer)

\* The session is asked only by a method that did not refuse.
Asked(sess, operation) == IF Refuses(sess) THEN {} ELSE {operation}

\* The operation was asked of the session and raised.
Failing(sess, operation, answer) ==
    IF ~Refuses(sess) /\ answer.raises THEN {operation} ELSE {}

\* What the model can stream.
DeltaA1 == Delta(0, "call_a", "get_user", "{\"id\"", "function")
DeltaA2  == Delta(0, None, None, ":1}", None)
DeltaB   == Delta(1, "call_b", "search", "{}", "function")
DeltaBad == Delta(0, None, "get_user", "{\"id\"", "function")
DeltaNil == Delta(0, None, None, None, None)

\* no chunk at all
StreamEmpty == <<>>
\* text only, in two chunks
StreamText == <<Chunk("Hello", <<>>), Chunk(", Ann", <<>>)>>
\* text, and a tool-call delta that carries no field
StreamHollow == <<Chunk("Done", <<DeltaNil>>)>>
\* text, and one call, without an id, whose arguments are not a JSON document
StreamBad == <<Chunk("Let me check", <<DeltaBad>>)>>
\* two calls, index 1 arriving before index 0, the arguments of 0 in two chunks
StreamTwo == <<Chunk(None, <<DeltaB, DeltaA1>>), Chunk(None, <<DeltaA2>>)>>

ScriptedStreams == {StreamEmpty, StreamText, StreamHollow, StreamBad, StreamTwo}

\* What the user can type.
UserLines == {"", " Q ", "find user 1"}

\* str.strip() and str.lower() over UserLines
Strip(line) == IF line = " Q " THEN "Q" ELSE line

Lower(text) == IF text = "Q" THEN "q" ELSE text

QuitCommands == {"exit", "quit", "q"}

\* The tool-call deltas _collect_tool_calls is given in its unit specification.
DeltaDomain ==
    {Delta(index, id, name, arguments, IF id = None THEN None ELSE "function") :
        index \in {0, 1}, id \in {None, "call_a"}, name \in {None, "get_user"},
        arguments \in {None, "{", "}"}}

DeltaSeqs == UNION {[1..n -> DeltaDomain] : n \in 0..MaxDeltas}

\* ----------------------------------------------------------------- states
NoTurn ==
    /\ ai_message = NoMessage
    /\ tc_i = 0
    /\ calls = <<>>
    /\ turn_base = <<>>
    /\ streams = <<>>
    /\ await_cycles = 0
    /\ dispatch_cycles = 0
    /\ returned = NoMessage
    /\ turn_state = "none"
    /\ responses = 0
    /\ request = NoRequest

NoCollect ==
    /\ tool_deltas = <<>>
    /\ tool_dict = <<>>
    /\ collected = <<>>
    /\ collect_pc = "idle"

\* No unit specification is running.
NoUnit ==
    /\ to_dict_self = NoMessage
    /\ to_dict_result = <<>>
    /\ stream_chunks = <<>>
    /\ stream_result = NoMessage
    /\ unit_pc = "idle"

\* The environment of a run that has its key: DIAL_API_KEY is set, and the
\* variables AsyncAzureOpenAI reads itself are not.
KeyProvided ==
    /\ dial_api_key = "dial-key"
    /\ azure_env_key = None

\* No method of the client was called by a direct caller.
NoCall == [method |-> None, answer |-> NoAnswer, res |-> Returned(<<>>)]

\* MCPClient(mcp_server_url) is built and nothing was done with it.
NoClientLog ==
    /\ initialized = FALSE
    /\ closes = 0
    /\ session_exits = 0
    /\ streams_exits = 0
    /\ requests = {}
    /\ failed = {}
    /\ client_calls = 0
    /\ last_call = NoCall

NoMainLog ==
    /\ resources = <<>>
    /\ prompts = <<>>
    /\ fault = None
    /\ errors_printed = 0

\* os.environ.get("DIAL_API_KEY"): None when the variable is not set, its
\* text otherwise, the empty text too.
DialApiKeys == {None, "", "dial-key"}

\* What AsyncAzureOpenAI reads from AZURE_OPENAI_API_KEY (or as a token from
\* AZURE_OPENAI_AD_TOKEN) when it is given no api_key.
AzureEnvKeys == {None, "azure-key"}

\* The credential of AsyncAzureOpenAI(api_key=api_key, ...): the argument,
\* and the environment's only when the argument is None.
OpenAIKey(api_key, env_key) == IF api_key # None THEN api_key ELSE env_key

\* The constructor raises OpenAIError("Missing credentials...") when it has
\* none; main() and DialClient.__init__ test nothing themselves.
DialClientRaises(api_key, env_key) == OpenAIKey(api_key, env_key) = None

\* main() is entered: MCPClient(mcp_server_url) is built, nothing is connected.
Started ==
    /\ pc = "start"
    /\ session = None
    /\ streams_context = None
    /\ session_context = None
    /\ stream_open = FALSE
    /\ wrapper_open = FALSE
    /\ exc = FALSE
    /\ tools = <<>>
    /\ messages = <<>>
    /\ NoTurn
    /\ NoCollect
    /\ NoUnit
    /\ NoClientLog
    /\ NoMainLog

\* main() where DIAL_API_KEY is the only source of a key, set or not set.
Init ==
    /\ Started
    /\ dial_api_key \in {None, "dial-key"}
    /\ azure_env_key = None

\* ------------------------------------------------------ MCPClient lifecycle
ConnectOutcomes == {"ok", "streams_fail", "session_fail", "initialize_fail"}

\* MCPClient.__aenter__: the stream context is built and entered, the
\* ClientSession is built and entered, the session is initialized.  The first
\* of these that raises ends the method, nothing of it is undone.
AEnter(outcome) ==
    /\ streams_context' = "streams"
    /\ stream_open' = (outcome # "streams_fail")
    /\ session_context' = IF outcome = "streams_fail" THEN None ELSE "client_session"
    /\ wrapper_open' = (outcome \in {"initialize_fail", "ok"})
    /\ session' = IF outcome \in {"initialize_fail", "ok"} THEN "session" ELSE None
    /\ initialized' = (outcome = "ok")

\* async with MCPClient(...) as mcp_client: __aenter__.  An exception of
\* __aenter__ leaves main() at once: __aexit__ is not run for it.
Connect ==
    /\ pc = "start"
    /\ \E outcome \in ConnectOutcomes :
        /\ AEnter(outcome)
        /\ exc' = (outcome # "ok")
        /\ fault' = IF outcome = "ok" THEN None ELSE "__aenter__"
        /\ pc' = IF outcome = "ok" THEN "get_resources" ELSE "crashed"
    /\ UNCHANGED <<tools, turnVars, collectVars, unitVars, envVars, closes, session_exits,
                   streams_exits, requests, failed, client_calls, last_call,
                   resources, prompts, errors_printed>>

\* an exception leaving the body without the context manager being exited
LeaveBodyUnreleased(operation) ==
    /\ pc' = "crashed"
    /\ exc' = TRUE
    /\ fault' = operation

\* An exception of the operation leaves the body of the async with: the
\* context manager's __aexit__ is run and the exception goes on.
LeaveBody(operation) ==
    /\ pc' = "aexit"
    /\ exc' = TRUE
    /\ fault' = operation

\* resources = await mcp_client.get_resources(); the list is only printed.
GetResources ==
    /\ pc = "get_resources"
    /\ \E answer \in ListResourcesAnswers :
        LET res == GetResourcesResult(session, answer)
        IN  /\ failed' = failed \cup Failing(session, "list_resources", answer)
            /\ IF res.raised
               THEN /\ LeaveBody("get_resources")
                    /\ UNCHANGED resources
               ELSE /\ resources' = res.value
                    /\ pc' = "get_tools"
                    /\ UNCHANGED <<exc, fault>>
    /\ requests' = requests \cup Asked(session, "list_resources")
    /\ UNCHANGED <<session, streams_context, session_context, stream_open,
                   wrapper_open, tools, turnVars, collectVars, unitVars, envVars, initialized, closes,
                   session_exits, streams_exits, client_calls, last_call, prompts,
                   errors_printed>>

\* tools = await mcp_client.get_tools(); DialClient(...); messages = [system]
GetTools ==
    /\ pc = "get_tools"
    /\ \E answer \in ListToolsAnswers :
        LET res == GetToolsResult(session, answer)
        IN  /\ failed' = failed \cup Failing(session, "list_tools", answer)
            /\ IF res.raised
               THEN /\ LeaveBody("get_tools")
                    /\ UNCHANGED <<tools, messages>>
               ELSE IF DialClientRaises(dial_api_key, azure_env_key)
               THEN /\ LeaveBody("DialClient")
                    /\ UNCHANGED <<tools, messages>>
               ELSE /\ tools' = res.value
                    /\ messages' = <<Message(SYSTEM, SYSTEM_PROMPT, None, <<>>)>>
                    /\ pc' = "get_prompts"
                    /\ UNCHANGED <<exc, fault>>
    /\ requests' = requests \cup Asked(session, "list_tools")
    /\ UNCHANGED <<session, streams_context, session_context, stream_open,
                   wrapper_open, ai_message, tc_i, calls, turn_base, streams,
                   await_cycles, dispatch_cycles, returned, turn_state, responses, request,
                   collectVars, unitVars, envVars, initialized, closes, session_exits, streams_exits,
                   client_calls, last_call, resources, prompts, errors_printed>>

\* the prompt message made of the name whatever the description
PromptTextNameOnly(prompt) == prompt.name

\* prompt.description or prompt.name
PromptText(prompt) ==
    IF Truthy(prompt.description) THEN prompt.description ELSE prompt.name

\* prompts = await mcp_client.get_prompts(), and one USER message for each
GetPrompts ==
    /\ pc = "get_prompts"
    /\ \E answer \in ListPromptsAnswers :
        LET res == GetPromptsResult(session, answer)
        IN  /\ failed' = failed \cup Failing(session, "list_prompts", answer)
            /\ IF res.raised
               THEN /\ LeaveBody("get_prompts")
                    /\ UNCHANGED <<prompts, messages>>
               ELSE /\ prompts' = res.value
                    /\ messages' = messages \o
                           [p \in 1..Len(res.value) |->
                               Message(USER, PromptText(res.value[p]), None, <<>>)]
                    /\ pc' = "input"
                    /\ UNCHANGED <<exc, fault>>
    /\ requests' = requests \cup Asked(session, "list_prompts")
    /\ UNCHANGED <<session, streams_context, session_context, stream_open,
                   wrapper_open, tools, ai_message, tc_i, calls, turn_base, streams,
                   await_cycles, dispatch_cycles, returned, turn_state, responses, request,
                   collectVars, unitVars, envVars, initialized, closes, session_exits, streams_exits,
                   client_calls, last_call, resources, errors_printed>>

ExitOutcomes == {"ok", "session_exit_fail", "streams_exit_fail"}

\* if self.session and self._session_context: the session context is exited
ExitsSession == session # None /\ session_context # None

\* the exit of the session context raises, and __aexit__ ends there
SessionExitRaises(outcome) == ExitsSession /\ outcome = "session_exit_fail"

\* if self._streams_context: reached when the session exit did not raise
ExitsStreams(outcome) == ~SessionExitRaises(outcome) /\ streams_context # None

StreamsExitRaises(outcome) == ExitsStreams(outcome) /\ outcome = "streams_exit_fail"

CloseRaises(outcome) == SessionExitRaises(outcome) \/ StreamsExitRaises(outcome)

\* MCPClient.__aexit__: the session context is exited, then the stream
\* context; an exception of either exit leaves __aexit__ at once.  No field of
\* the client is reset.
Close(outcome) ==
    /\ closes' = closes + 1
    /\ session_exits' = IF ExitsSession THEN session_exits + 1 ELSE session_exits
    /\ wrapper_open' = IF ExitsSession THEN FALSE ELSE wrapper_open
    /\ streams_exits' = IF ExitsStreams(outcome) THEN streams_exits + 1
                        ELSE streams_exits
    /\ stream_open' = IF ExitsStreams(outcome) THEN FALSE ELSE stream_open
    /\ UNCHANGED <<session, streams_context, session_context, initialized>>

\* __aexit__ run when the async-with body is left.  It returns None, so an
\* exception of the body goes on.
AExit ==
    /\ pc = "aexit"
    /\ \E outcome \in ExitOutcomes :
        /\ Close(outcome)
        /\ exc' = (exc \/ CloseRaises(outcome))
        /\ pc' = IF exc \/ CloseRaises(outcome) THEN "crashed" ELSE "exited"
    /\ UNCHANGED <<tools, turnVars, collectVars, unitVars, envVars, requests, failed, client_calls,
                   last_call, mainVars>>

\* ------------------------------------------------------- the chat loop
\* main() starting each turn's history over from the system prompt
RestartWithUserMsg(history, user_msg) == <<history[1], user_msg>>

\* messages.append(Message(role=Role.USER, content=user_input))
AppendUserMsg(history, user_msg) == Append(history, user_msg)

\* One pass of main()'s while loop up to its await: input(), the quit and
\* empty-line tests, messages.append(user message), get_completion called.
UserInput ==
    /\ pc = "input"
    /\ \E line \in UserLines :
        LET user_input == Strip(line)
        IN  IF Lower(user_input) \in QuitCommands
            THEN /\ pc' = "aexit"
                 /\ UNCHANGED turnVars
            ELSE IF ~Truthy(user_input)
            THEN UNCHANGED <<pc, turnVars>>
            ELSE /\ responses < MaxResponses
                 /\ messages' = AppendUserMsg(messages,
                                              Message(USER, user_input, None, <<>>))
                 /\ pc' = "await_model"
                 /\ turn_base' = messages'
                 /\ turn_state' = "running"
                 /\ ai_message' = NoMessage
                 /\ tc_i' = 0
                 /\ calls' = <<>>
                 /\ streams' = <<>>
                 /\ await_cycles' = 0
                 /\ dispatch_cycles' = 0
                 /\ returned' = NoMessage
                 /\ UNCHANGED <<responses, request>>
    /\ UNCHANGED <<session, streams_context, session_context, stream_open,
                   wrapper_open, exc, tools, collectVars, unitVars, envVars, clientVars, mainVars>>

\* input() raises (EOFError at the end of the input): the exception is
\* outside main()'s try and leaves the body of the async with.
InputFail ==
    /\ pc = "input"
    /\ LeaveBody("input")
    /\ UNCHANGED <<session, streams_context, session_context, stream_open,
                   wrapper_open, tools, turnVars, collectVars, unitVars, envVars, clientVars,
                   resources, prompts, errors_printed>>

\* The model answers at most MaxResponses requests in a session, and asks
\* for tools only while another answer can follow.
MayAnswer(chunks) ==
    IF StreamResponseMessage(chunks).tool_calls # <<>>
    THEN responses + 1 < MaxResponses
    ELSE responses < MaxResponses

\* get_completion going on also when the message has no text
RequestsToolsOrNoText(message) ==
    message.tool_calls # <<>> \/ ~Truthy(message.content)

\* get_completion taking a message with text as final
RequestsToolsUnlessText(message) ==
    message.tool_calls # <<>> /\ ~Truthy(message.content)

\* if ai_message.tool_calls: of get_completion
RequestsTools(message) == message.tool_calls # <<>>

\* get_completion from its await of _stream_response, the stream ending
\* normally, to its next await: with tool calls, the message is appended and
\* _call_tools entered; without, the message is returned to main(), which
\* appends it and goes back to input().
StreamEnds(chunks) ==
    /\ LET message == StreamResponseAfter(streams, chunks)
       IN  /\ streams' = Append(streams, chunks)
           /\ ai_message' = message
           /\ messages' = Append(messages, message)
           /\ IF RequestsTools(message)
              THEN /\ pc' = "call_tool"
                   /\ tc_i' = 1
                   /\ dispatch_cycles' = dispatch_cycles + 1
                   /\ UNCHANGED <<returned, turn_state>>
              ELSE /\ pc' = "input"
                   /\ returned' = message
                   /\ turn_state' = "returned"
                   /\ UNCHANGED <<tc_i, dispatch_cycles>>
    /\ responses' = responses + 1
    /\ request' = Request(messages, tools)
    /\ await_cycles' = await_cycles + 1
    /\ UNCHANGED <<session, streams_context, session_context, stream_open,
                   wrapper_open, exc, tools, calls, turn_base, collectVars, unitVars, envVars,
                   clientVars, mainVars>>

\* The frames of get_completion on the stack: one, and one more for each
\* return await self.get_completion(messages) of the turn.
Depth == dispatch_cycles + 1

\* The model answers a request of a session in which it answers at most
\* MaxResponses of them.
StreamResponse ==
    /\ pc = "await_model"
    /\ Depth <= RecursionLimit
    /\ \E chunks \in ScriptedStreams :
        /\ MayAnswer(chunks)
        /\ StreamEnds(chunks)

\* get_completion appending what it had read of the failed response
HistoryWithPartial(history, partial) == Append(history, partial)

\* get_completion appending the failed response when it had requested tools
HistoryWithRequestedCalls(history, partial) ==
    IF partial.tool_calls # <<>> THEN Append(history, partial) ELSE history

\* messages when _stream_response raised: content and tool_deltas are its
\* locals, and the exception leaves get_completion before any append.
HistoryAfterFailure(history, partial) == history

\* main() without its try: the exception of the turn leaves the body
TurnErrorEscapes ==
    /\ LeaveBody("get_completion")
    /\ UNCHANGED errors_printed

\* except Exception as e: print(f"[App] Error: {e}"), and the while loop
\* goes on to its next input().
CatchTurnError ==
    /\ pc' = "input"
    /\ errors_printed' = errors_printed + 1
    /\ UNCHANGED <<exc, fault>>

\* The request to the model raises, or the read of its stream does after
\* some chunks: the exception leaves every get_completion frame and is caught
\* by main()'s except.
StreamFail ==
    /\ pc = "await_model"
    /\ Depth <= RecursionLimit
    /\ responses < MaxResponses
    /\ \E chunks \in ScriptedStreams :
        messages' = HistoryAfterFailure(messages, StreamResponseMessage(chunks))
    /\ responses' = responses + 1
    /\ request' = Request(messages, tools)
    /\ await_cycles' = await_cycles + 1
    /\ turn_state' = "failed"
    /\ CatchTurnError
    /\ UNCHANGED <<session, streams_context, session_context, stream_open,
                   wrapper_open, tools, ai_message, tc_i, calls, turn_base,
                   streams, dispatch_cycles, returned, collectVars, unitVars, envVars, clientVars,
                   resources, prompts>>

\* The log entry of one mcp_client.call_tool(tool_name, tool_args).
Call(tool_call, sent, reply, res) ==
    [tool_call |-> tool_call, tool_name |-> tool_call.function.name,
     tool_args |-> ToolArgs(tool_call),
     parse_failed |-> JsonLoads(tool_call.function.arguments).raised,
     sent |-> sent, answered |-> res # Raise(None), reply |-> reply, res |-> res,
     cycle |-> dispatch_cycles, pos |-> tc_i, at |-> Len(messages) + 1]

\* _call_tools putting each result right after the Assistant message
InsertToolMsg(history, tool_msg) ==
    LET p == CHOOSE p \in 1..Len(history) :
                 /\ history[p].role = AI
                 /\ \A q \in (p + 1)..Len(history) : history[q].role # AI
    IN  SubSeq(history, 1, p) \o <<tool_msg>> \o SubSeq(history, p + 1, Len(history))

\* messages.append(tool_msg)
AppendToolMsg(history, tool_msg) == Append(history, tool_msg)

\* _call_tools leaving its loop after the first tool call
NextToolCallFirstOnly == tc_i' = 0 /\ pc' = "await_model"

\* The for loop of _call_tools goes on: to the next tool call, or out of
\* _call_tools and into the recursive get_completion.
NextToolCall ==
    IF tc_i < Len(ai_message.tool_calls)
    THEN tc_i' = tc_i + 1 /\ pc' = "call_tool"
    ELSE tc_i' = 0 /\ pc' = "await_model"

\* the invocation started as a task that the for loop does not await
ToolInvokeNotAwaited ==
    /\ pc = "call_tool"
    /\ LET tool_call == ai_message.tool_calls[tc_i]
       IN  /\ calls' = Append(calls, Call(tool_call, session # None, NoReply,
                                          Raise(None)))
           /\ NextToolCall
           /\ UNCHANGED messages
    /\ requests' = requests \cup Asked(session, "call_tool")
    /\ UNCHANGED <<session, streams_context, session_context, stream_open,
                   wrapper_open, exc, tools, ai_message, turn_base, streams,
                   await_cycles, dispatch_cycles, returned, turn_state, responses, request,
                   collectVars, unitVars, envVars, initialized, closes, session_exits, streams_exits,
                   failed, client_calls, last_call, mainVars>>

\* One pass of the for loop of _call_tools up to its await: the arguments are
\* parsed and mcp_client.call_tool is called.  Without a session call_tool
\* raises at once, and the pass ends in the except branch.
ToolInvoke ==
    /\ pc = "call_tool"
    /\ LET tool_call == ai_message.tool_calls[tc_i]
       IN  IF session = None
           THEN /\ calls' = Append(calls, Call(tool_call, FALSE, NoReply,
                                               Raise(NotConnected)))
                /\ messages' = AppendToolMsg(messages,
                                             ToolMsg(tool_call, Raise(NotConnected)))
                /\ NextToolCall
           ELSE /\ calls' = Append(calls, Call(tool_call, TRUE, NoReply, Raise(None)))
                /\ pc' = "tool_wait"
                /\ UNCHANGED <<messages, tc_i>>
    /\ requests' = requests \cup Asked(session, "call_tool")
    /\ UNCHANGED <<session, streams_context, session_context, stream_open,
                   wrapper_open, exc, tools, ai_message, turn_base, streams,
                   await_cycles, dispatch_cycles, returned, turn_state, responses, request,
                   collectVars, unitVars, envVars, initialized, closes, session_exits, streams_exits,
                   failed, client_calls, last_call, mainVars>>

\* The rest of the pass: session.call_tool answers, call_tool returns or
\* raises, tool_msg is built and appended.
ToolReturn ==
    /\ pc = "tool_wait"
    /\ \E reply \in Replies :
        LET tool_call == ai_message.tool_calls[tc_i]
            res == CallToolResult(reply)
        IN  /\ calls' = [calls EXCEPT ![Len(calls)] =
                            Call(tool_call, TRUE, reply, res)]
            /\ messages' = AppendToolMsg(messages, ToolMsg(tool_call, res))
            /\ NextToolCall
            /\ failed' = failed \cup Failing(session, "call_tool", reply)
    /\ UNCHANGED <<session, streams_context, session_context, stream_open,
                   wrapper_open, exc, tools, ai_message, turn_base, streams,
                   await_cycles, dispatch_cycles, returned, turn_state, responses, request,
                   collectVars, unitVars, envVars, initialized, closes, session_exits, streams_exits,
                   requests, client_calls, last_call, mainVars>>

\* The CancelledError caught where the turn's other errors are: by the except
\* of _call_tools while a tool is awaited, by main()'s except otherwise.
CancelledErrorCaught ==
    /\ IF pc = "tool_wait"
       THEN /\ messages' = AppendToolMsg(messages,
                                         ToolMsg(ai_message.tool_calls[tc_i],
                                                 Raise("CancelledError")))
            /\ NextToolCall
       ELSE /\ pc' = "input"
            /\ UNCHANGED <<messages, tc_i>>
    /\ UNCHANGED <<exc, fault>>

\* asyncio.CancelledError is a BaseException: neither `except Exception` of
\* _call_tools nor that of main() catches it, so it leaves every frame of the
\* turn and the body of the async with, and nothing is appended.
CancelledErrorLeaves ==
    /\ LeaveBody("cancel")
    /\ UNCHANGED <<messages, tc_i>>

\* The turn is cancelled (the user interrupts: asyncio.run cancels the main
\* task) while get_completion is suspended at one of its two awaits, the
\* model's stream or the tool's answer.
Cancel ==
    /\ pc \in {"await_model", "tool_wait"}
    /\ turn_state' = "cancelled"
    /\ CancelledErrorLeaves
    /\ UNCHANGED <<session, streams_context, session_context, stream_open,
                   wrapper_open, tools, ai_message, calls, turn_base, streams,
                   await_cycles, dispatch_cycles, returned, responses, request,
                   collectVars, unitVars, envVars, clientVars, resources, prompts,
                   errors_printed>>

Next ==
    \/ Connect
    \/ GetResources
    \/ GetTools
    \/ GetPrompts
    \/ UserInput
    \/ InputFail
    \/ StreamResponse
    \/ StreamFail
    \/ ToolInvoke
    \/ ToolReturn
    \/ Cancel
    \/ AExit

Spec == Init /\ [][Next]_vars

\* ------------------------------------------- main() in every environment
\* main() with DIAL_API_KEY not set, empty or set, and with or without a
\* credential in the variables AsyncAzureOpenAI reads itself.
InitStartup ==
    /\ Started
    /\ dial_api_key \in DialApiKeys
    /\ azure_env_key \in AzureEnvKeys

SpecStartup == InitStartup /\ [][Next]_vars

\* ----------------------------------- get_completion on a client of any state
\* dial_client.get_completion(messages) is called as main() calls it, on a
\* DialClient whose MCPClient is connected or was never entered.
InitCompletion ==
    /\ pc = "await_model"
    /\ \E connected \in BOOLEAN :
        /\ session = IF connected THEN "session" ELSE None
        /\ streams_context = IF connected THEN "streams" ELSE None
        /\ session_context = IF connected THEN "client_session" ELSE None
        /\ stream_open = connected
        /\ wrapper_open = connected
        /\ initialized = connected
    /\ exc = FALSE
    /\ \E listed \in ProviderToolLists : tools = DialTools(listed)
    /\ messages = <<Message(SYSTEM, SYSTEM_PROMPT, None, <<>>),
                    Message(USER, "find user 1", None, <<>>)>>
    /\ ai_message = NoMessage
    /\ tc_i = 0
    /\ calls = <<>>
    /\ turn_base = messages
    /\ streams = <<>>
    /\ await_cycles = 0
    /\ dispatch_cycles = 0
    /\ returned = NoMessage
    /\ turn_state = "running"
    /\ responses = 0
    /\ request = NoRequest
    /\ NoCollect
    /\ NoUnit
    /\ KeyProvided
    /\ closes = 0
    /\ session_exits = 0
    /\ streams_exits = 0
    /\ requests = {}
    /\ failed = {}
    /\ client_calls = 0
    /\ last_call = NoCall
    /\ NoMainLog

NextCompletion ==
    \/ StreamResponse
    \/ StreamFail
    \/ ToolInvoke
    \/ ToolReturn

SpecCompletion == InitCompletion /\ [][NextCompletion]_vars

\* ------------------------------ get_completion against a model without bound
\* The model answers every request it is sent, with any of its streams.
StreamResponseUnbounded ==
    /\ pc = "await_model"
    /\ Depth <= RecursionLimit
    /\ \E chunks \in ScriptedStreams : StreamEnds(chunks)

\* return await self.get_completion(messages) with the stack at the
\* interpreter's limit: the call raises RecursionError, an Exception, which
\* leaves every get_completion frame and is caught by main()'s except.
RecursionErrorRaised ==
    /\ pc = "await_model"
    /\ Depth > RecursionLimit
    /\ turn_state' = "failed"
    /\ CatchTurnError
    /\ UNCHANGED <<session, streams_context, session_context, stream_open,
                   wrapper_open, tools, messages, ai_message, tc_i, calls,
                   turn_base, streams, await_cycles, dispatch_cycles, returned,
                   responses, request, collectVars, unitVars, envVars,
                   clientVars, resources, prompts>>

NextRecursion ==
    \/ StreamResponseUnbounded
    \/ ToolInvoke
    \/ ToolReturn
    \/ RecursionErrorRaised

SpecRecursion == InitCompletion /\ [][NextRecursion]_vars

\* ------------------------------------------- _collect_tool_calls on its own
InitCollect ==
    /\ pc = "idle"
    /\ session = None
    /\ streams_context = None
    /\ session_context = None
    /\ stream_open = FALSE
    /\ wrapper_open = FALSE
    /\ exc = FALSE
    /\ tools = <<>>
    /\ messages = <<>>
    /\ NoTurn
    /\ tool_deltas \in DeltaSeqs
    /\ tool_dict = <<>>
    /\ collected = <<>>
    /\ collect_pc = "call"
    /\ NoUnit
    /\ KeyProvided
    /\ NoClientLog
    /\ NoMainLog

\* _collect_tool_calls(tool_deltas) runs and returns.
Collect ==
    /\ collect_pc = "call"
    /\ tool_dict' = ToolDict(tool_deltas)
    /\ collected' = CollectToolCalls(tool_deltas)
    /\ collect_pc' = "done"
    /\ UNCHANGED <<appVars, turnVars, tool_deltas, clientVars, mainVars, unitVars, envVars>>

NextCollect == Collect

SpecCollect == InitCollect /\ [][NextCollect]_vars

\* ------------------------------------------- MCPClient used by a direct caller
\* A caller builds MCPClient(url) and calls its methods itself, in any order:
\* __aenter__ once, __aexit__ and the catalog and tool methods any number of
\* times, catching what they raise.
InitClient ==
    /\ pc = "client"
    /\ session = None
    /\ streams_context = None
    /\ session_context = None
    /\ stream_open = FALSE
    /\ wrapper_open = FALSE
    /\ exc = FALSE
    /\ tools = <<>>
    /\ messages = <<>>
    /\ NoTurn
    /\ NoCollect
    /\ NoUnit
    /\ KeyProvided
    /\ NoClientLog
    /\ NoMainLog

\* await client.__aenter__()
ClientEnter ==
    /\ pc = "client"
    /\ streams_context = None
    /\ \E outcome \in ConnectOutcomes :
        /\ AEnter(outcome)
        /\ last_call' = [method |-> "__aenter__", answer |-> NoAnswer,
                         res |-> IF outcome = "ok" THEN Returned(<<>>)
                                 ELSE Raised(outcome)]
    /\ UNCHANGED <<pc, exc, tools, turnVars, collectVars, unitVars, envVars, closes, session_exits,
                   streams_exits, requests, failed, client_calls, mainVars>>

\* await client.__aexit__(None, None, None)
ClientClose ==
    /\ pc = "client"
    /\ closes < MaxCloses
    /\ \E outcome \in ExitOutcomes :
        /\ Close(outcome)
        /\ last_call' = [method |-> "__aexit__", answer |-> NoAnswer,
                         res |-> IF CloseRaises(outcome) THEN Raised(outcome)
                                 ELSE Returned(<<>>)]
    /\ UNCHANGED <<pc, exc, tools, turnVars, collectVars, unitVars, envVars, requests, failed,
                   client_calls, mainVars>>

\* await client.get_tools(), get_resources(), get_prompts(), get_resource(uri),
\* get_prompt(name) or call_tool(tool_name, tool_args)
ClientCall ==
    /\ pc = "client"
    /\ client_calls < MaxClientCalls
    /\ \E method \in ClientMethods :
        \E answer \in MethodAnswers(method) :
            /\ last_call' = [method |-> method,
                             answer |-> IF Refuses(session) THEN NoAnswer
                                        ELSE answer,
                             res |-> MethodResult(method, session, answer)]
            /\ requests' = requests \cup Asked(session, SessionOperation(method))
            /\ failed' = failed \cup Failing(session, SessionOperation(method), answer)
    /\ client_calls' = client_calls + 1
    /\ UNCHANGED <<appVars, turnVars, collectVars, unitVars, envVars, initialized, closes,
                   session_exits, streams_exits, mainVars>>

NextClient ==
    \/ ClientEnter
    \/ ClientClose
    \/ ClientCall

SpecClient == InitClient /\ [][NextClient]_vars

\* ====================================================================
\* Properties of _collect_tool_calls (SpecCollect)
\* ====================================================================
DeltaIndexes == {tool_deltas[p].index : p \in 1..Len(tool_deltas)}

RECURSIVE ConcatArguments(_)
\* The argument chunks of a sequence of deltas, joined in its order.
ConcatArguments(deltas) ==
    IF deltas = <<>> THEN ""
    ELSE (IF Truthy(deltas[1].arguments) THEN deltas[1].arguments ELSE "")
             \o ConcatArguments(Tail(deltas))

\* The deltas with index i, in arrival order.
DeltasOf(i) == LET Has(d) == d.index = i IN SelectSeq(tool_deltas, Has)

\* Some delta with index i carries a field the aggregator reads.
Supplied(i) ==
    \E p \in 1..Len(tool_deltas) :
        /\ tool_deltas[p].index = i
        /\ \/ Truthy(tool_deltas[p].id)
           \/ Truthy(tool_deltas[p].name)
           \/ Truthy(tool_deltas[p].arguments)
           \/ Truthy(tool_deltas[p].type)

\* C7: the call reconstructed for an index has, as its argument text, the
\* argument chunks of exactly the deltas with that index, joined in arrival
\* order; an index with an argument chunk has a reconstructed call; and the
\* returned list holds the reconstructed calls.
C7_ArgumentsPerIndex ==
    collect_pc = "done" =>
        /\ \A p \in 1..Len(tool_dict) :
              tool_dict[p].val.function.arguments
                  = ConcatArguments(DeltasOf(tool_dict[p].key))
        /\ \A i \in DeltaIndexes :
              ConcatArguments(DeltasOf(i)) # "" => HasKey(tool_dict, i)
        /\ Len(collected) = Len(tool_dict)
        /\ \A p \in 1..Len(tool_dict) : collected[p] = tool_dict[p].val

\* Deltas of two indexes interleaved 0, 1, 0, each with an argument chunk.
C7_Witness ==
    /\ collect_pc = "done"
    /\ Len(tool_deltas) = 3
    /\ tool_deltas[1].index = 0 /\ tool_deltas[1].arguments = "{"
    /\ tool_deltas[2].index = 1 /\ tool_deltas[2].arguments = "{"
    /\ tool_deltas[3].index = 0 /\ tool_deltas[3].arguments = "}"
    /\ Len(collected) = 2
    /\ collected[1].function.arguments = "{}"
    /\ collected[2].function.arguments = "{"

\* C8: the returned list is in ascending order of index and has exactly one
\* call for each index for which a delta supplied a field.
C8_AscendingByIndex ==
    collect_pc = "done" =>
        /\ \A p, q \in 1..Len(tool_dict) :
              p < q => tool_dict[p].key < tool_dict[q].key
        /\ \A i \in DeltaIndexes :
              Supplied(i) =>
                  Cardinality({p \in 1..Len(tool_dict) : tool_dict[p].key = i}) = 1
        /\ Len(collected) = Len(tool_dict)

\* ====================================================================
\* Properties of one user turn (Spec, SpecCompletion)
\* ====================================================================
\* The Assistant messages of the turn's model responses.
TurnMessages == [i \in 1..Len(streams) |-> StreamResponseMessage(streams[i])]

\* The Assistant message of the turn's i-th model response.
TurnMessage(i) == StreamResponseMessage(streams[i])

RECURSIVE CycleStartIn(_, _)
\* Where the i-th of the Assistant messages tm belongs in history when every
\* earlier one is followed by one result for each of its calls.
CycleStartIn(tm, i) ==
    IF i = 1 THEN Len(turn_base) + 1
    ELSE CycleStartIn(tm, i - 1) + 1 + Len(tm[i - 1].tool_calls)

\* The j-th message after position p is a ToolResult for tool call j of message.
ResultFor(p, j, message) ==
    /\ p + j <= Len(messages)
    /\ messages[p + j].role = TOOL
    /\ messages[p + j].tool_call_id = message.tool_calls[j].id

CycleComplete == pc = "await_model" /\ ai_message.tool_calls # <<>>

\* The calls made for the Assistant message of the running cycle, in log order.
CycleCalls ==
    LET Mine(c) == c.cycle = dispatch_cycles IN SelectSeq(calls, Mine)

\* C2: after a Dispatching-Tools cycle over an Assistant message with n tool
\* calls, history ends with that message followed by exactly n ToolResult
\* messages, the j-th with the id of the j-th call.
C2_OneResultPerCall ==
    CycleComplete =>
        LET n == Len(ai_message.tool_calls)
            p == Len(messages) - n
        IN  /\ p >= 1
            /\ messages[p] = ai_message
            /\ \A j \in 1..n : ResultFor(p, j, ai_message)

\* A cycle of two calls, the first answered with text, the second failing.
C2_Witness ==
    /\ CycleComplete
    /\ Len(ai_message.tool_calls) = 2
    /\ Len(CycleCalls) = 2
    /\ ~CycleCalls[1].res.raised
    /\ CycleCalls[2].res.raised

\* The texts call_tool's exceptions print as.
ErrorTexts == {NotConnected, "list index out of range", ReplyError.error}

\* The message appended for a logged call.
ResultOf(c) == messages[c.at]

FailureDescription(c) ==
    \E e \in ErrorTexts : ResultOf(c).content = ErrorMsg(c.tool_name, e)

\* The provider raised, could not be asked, or returned no content item.
InvocationRaised(c) ==
    \/ ~c.sent
    \/ c.reply.raises
    \/ c.reply.content = <<>>

NonTextResult(c) ==
    /\ c.sent
    /\ ~c.reply.raises
    /\ c.reply.content # <<>>
    /\ c.reply.content[1].kind # "text"

\* Every call is answered before _call_tools goes on: only the call awaited
\* on the session has no result yet.
NoCallAbandoned ==
    \A q \in 1..Len(calls) :
        ~calls[q].answered => q = Len(calls) /\ pc = "tool_wait"

\* C3 as claimed: every call whose invocation fails, a non-text result
\* included, gets a ToolResult with a failure description and the call's id.
C3_AsClaimed ==
    /\ NoCallAbandoned
    /\ \A q \in 1..Len(calls) :
          LET c == calls[q]
          IN  c.answered /\ (InvocationRaised(c) \/ NonTextResult(c)) =>
                  /\ ResultOf(c).role = TOOL
                  /\ ResultOf(c).tool_call_id = c.tool_call.id
                  /\ FailureDescription(c)

\* C3, amended: a call whose invocation raises (provider error, provider
\* unreachable, no session, no content item) gets a ToolResult with a failure
\* description and the call's id; a call answered with a non-text first item
\* gets a ToolResult whose text is that item's string form, with the call's
\* id; and no call ends without its ToolResult.
C3_DispatchNeverRaises ==
    /\ NoCallAbandoned
    /\ \A q \in 1..Len(calls) :
          LET c == calls[q]
          IN  c.answered =>
                  /\ ResultOf(c).role = TOOL
                  /\ ResultOf(c).tool_call_id = c.tool_call.id
                  /\ InvocationRaised(c) => FailureDescription(c)
                  /\ NonTextResult(c) =>
                        ResultOf(c).content = c.reply.content[1].repr

\* A call on a client without a session, answered with a failure description.
C3_Witness ==
    \E q \in 1..Len(calls) :
        /\ calls[q].answered
        /\ ~calls[q].sent
        /\ session = None
        /\ ResultOf(calls[q]).content = ErrorMsg(calls[q].tool_name, NotConnected)

\* _call_tools is running.
InCycle == pc \in {"call_tool", "tool_wait"}

\* Where the latest Assistant message is in history.
AssistantPos ==
    CHOOSE p \in 1..Len(messages) :
        /\ messages[p].role = AI
        /\ \A q \in (p + 1)..Len(messages) : messages[q].role # AI

\* C4: at every point of a Dispatching-Tools cycle, the messages after the
\* cycle's Assistant message are the ToolResults of its first calls, in the
\* order of its tool_calls, each the result of the call at that position; a
\* call is sent only when every call before it has its ToolResult in history.
C4_ResultsInRequestOrder ==
    InCycle \/ CycleComplete =>
        LET p == AssistantPos
            m == Len(messages) - p
        IN  /\ messages[p] = ai_message
            /\ m = IF InCycle THEN tc_i - 1 ELSE Len(ai_message.tool_calls)
            /\ Len(CycleCalls) = IF pc = "tool_wait" THEN m + 1 ELSE m
            /\ \A j \in 1..Len(CycleCalls) :
                  /\ CycleCalls[j].pos = j
                  /\ CycleCalls[j].tool_call = ai_message.tool_calls[j]
            /\ \A j \in 1..m :
                  /\ ResultFor(p, j, ai_message)
                  /\ CycleCalls[j].answered
                  /\ CycleCalls[j].at = p + j
                  /\ messages[p + j] = ToolMsg(CycleCalls[j].tool_call, CycleCalls[j].res)

\* A cycle of two calls, the first failing, the second answered with text.
C4_Witness ==
    /\ CycleComplete
    /\ Len(ai_message.tool_calls) = 2
    /\ Len(CycleCalls) = 2
    /\ CycleCalls[1].res.raised
    /\ ~CycleCalls[2].res.raised
    /\ CycleCalls[2].reply = ReplyText

\* The running turn's first model response has no tool calls.
FirstResponseFinal ==
    /\ Len(streams) >= 1
    /\ StreamResponseMessage(streams[1]).tool_calls = <<>>

\* C5: when the first response of a turn has no tool calls, get_completion
\* has returned to main() after one Awaiting-Model cycle, with no
\* Dispatching-Tools cycle and no call_tool.
C5_LoopTermination ==
    FirstResponseFinal =>
        /\ turn_state = "returned"
        /\ pc \in {"input", "aexit", "exited", "crashed"}
        /\ await_cycles = 1
        /\ dispatch_cycles = 0
        /\ Len(streams) = 1
        /\ calls = <<>>
        /\ messages = Append(turn_base, returned)

\* A turn answered at once by a stream without a chunk.
C5_Witness ==
    /\ FirstResponseFinal
    /\ streams[1] = StreamEmpty
    /\ turn_state = "returned"

\* C6: the message get_completion returns has no tool calls and is the
\* Assistant message of the turn's last model response; while the latest
\* Assistant message has tool calls the turn has not returned.
C6_TerminalCondition ==
    /\ turn_state = "returned" =>
          /\ returned.role = AI
          /\ returned.tool_calls = <<>>
          /\ returned = TurnMessage(Len(streams))
          /\ returned = ai_message
          /\ messages[Len(messages)] = returned
    /\ ai_message.tool_calls # <<>> => turn_state # "returned"

\* A turn that returned its final message after a cycle with tool calls.
C6_Witness ==
    /\ turn_state = "returned"
    /\ dispatch_cycles >= 1
    /\ Truthy(returned.content)
    /\ Truthy(TurnMessage(1).content)

\* C9: a model stream without a chunk gives the Assistant message with text
\* "" and no tool calls, and that message is the turn's final answer.
C9_EmptyStream ==
    \A i \in 1..Len(streams) :
        streams[i] = <<>> =>
            /\ i = Len(streams)
            /\ turn_state = "returned"
            /\ returned = Message(AI, "", None, <<>>)
            /\ messages[Len(messages)] = returned

\* A turn whose second response, after a cycle, is a stream without a chunk.
C9_Witness ==
    /\ turn_state = "returned"
    /\ Len(streams) = 2
    /\ streams[2] = <<>>

\* The tool calls _call_tools has been through: those of the cycles before
\* the running one, and the running one's up to the loop's position.
Dispatched(cycle, pos) ==
    /\ \/ cycle < dispatch_cycles
       \/ ~InCycle
       \/ pos < tc_i
       \/ pos = tc_i /\ pc = "tool_wait"

Malformed(tool_call) == JsonLoads(tool_call.function.arguments).raised

\* C10: a tool call whose arguments do not parse is not skipped: when
\* _call_tools has been through it, call_tool was called for it exactly once,
\* with the call's name and the empty argument set, the request went to the
\* session, and once answered the call has its ToolResult.
C10_MalformedArguments ==
    \A cycle \in 1..dispatch_cycles :
        \A pos \in 1..Len(TurnMessage(cycle).tool_calls) :
            LET tool_call == TurnMessage(cycle).tool_calls[pos]
                made == {q \in 1..Len(calls) :
                            calls[q].cycle = cycle /\ calls[q].pos = pos}
            IN  Dispatched(cycle, pos) /\ Malformed(tool_call) =>
                    /\ Cardinality(made) = 1
                    /\ \A q \in made :
                          /\ calls[q].tool_call = tool_call
                          /\ calls[q].tool_name = tool_call.function.name
                          /\ calls[q].tool_args = EmptyDict
                          /\ calls[q].sent
                          /\ calls[q].answered =>
                                /\ ResultOf(calls[q]).role = TOOL
                                /\ ResultOf(calls[q]).tool_call_id = tool_call.id

\* A call with malformed arguments was sent with {} and answered with text.
C10_Witness ==
    \E q \in 1..Len(calls) :
        /\ Malformed(calls[q].tool_call)
        /\ calls[q].sent
        /\ calls[q].tool_args = EmptyDict
        /\ calls[q].reply = ReplyText
        /\ ResultOf(calls[q]).content = "user 1: Ann"

\* ====================================================================
\* Properties of the session's lifecycle (Spec, SpecClient)
\* ====================================================================
\* main() has ended: it returned, or an exception left it.
MainEnded == pc \in {"exited", "crashed"}

\* C11: when the session was opened (__aenter__ returned), main() ends only
\* after the release ran, and the release runs exactly once, whichever way the
\* body was left: MCPClient.__aexit__ is called once, and in it the session is
\* exited once; nothing is released while the body runs, and nothing twice.
C11_GuaranteedRelease ==
    /\ closes <= 1
    /\ session_exits <= 1
    /\ streams_exits <= 1
    /\ initialized /\ MainEnded =>
          /\ closes = 1
          /\ session_exits = 1
          /\ ~wrapper_open
    /\ initialized /\ ~MainEnded =>
          /\ closes = 0
          /\ session_exits = 0
          /\ wrapper_open

\* input() raised in the chat loop of an opened session, and main() has ended
\* with the session exited.
C11_Witness ==
    /\ initialized
    /\ pc = "crashed"
    /\ fault = "input"
    /\ closes = 1
    /\ session_exits = 1

\* C12: when close has run, the stream is released, whether or not the
\* release of the session wrapper failed; and the stream is never released
\* before the session wrapper.
C12_StreamAlwaysReleased ==
    closes >= 1 =>
        /\ ~stream_open
        /\ streams_exits >= 1 /\ ExitsSession => session_exits >= 1

\* C13: when __aenter__ fails after it entered the stream context, the stream
\* and the session wrapper, if entered, are released when startup has ended.
C13_FailedHandshakeReleases ==
    pc = "crashed" /\ fault = "__aenter__" =>
        /\ ~stream_open
        /\ ~wrapper_open

\* C14: over any sequence of close calls each of the session wrapper and the
\* stream is released at most once, and close on a client that was never
\* opened releases nothing.
C14_CloseIdempotent ==
    /\ session_exits <= 1
    /\ streams_exits <= 1
    /\ streams_context = None => session_exits = 0 /\ streams_exits = 0

\* The texts of the RuntimeError the methods raise without a session.
NotConnectedTexts == {NotConnected, NotConnectedPlain}

\* C15: a catalog or tool method called on a client whose initialize has not
\* returned raises the not-connected error and asks the provider nothing.
C15_NotConnectedBeforeHandshake ==
    [][~initialized /\ client_calls' # client_calls =>
          /\ last_call'.res.raised
          /\ last_call'.res.error \in NotConnectedTexts
          /\ requests' = requests]_vars

\* ====================================================================
\* Properties of startup and of the chat loop (Spec)
\* ====================================================================
\* main() is in its while loop, or left it by quit or by input() raising.
ReachedChatLoop ==
    \/ pc \in {"input", "await_model", "call_tool", "tool_wait"}
    \/ pc \in {"aexit", "exited", "crashed"} /\ fault \in {None, "input", "cancel"}

\* C16: when list_resources raised, main()'s resources is the empty list,
\* no exception left get_resources and startup went on to get_tools; when
\* list_prompts raised, prompts is the empty list, no prompt message was
\* added, no exception left get_prompts and main() reached its chat loop.
C16_OptionalCatalogDegrades ==
    /\ "list_resources" \in failed =>
          /\ resources = <<>>
          /\ fault # "get_resources"
          /\ pc \notin {"start", "get_resources"}
          /\ ~ReachedChatLoop =>
                \/ pc \in {"get_tools", "get_prompts"}
                \/ fault \in {"get_tools", "DialClient"}
    /\ "list_prompts" \in failed =>
          /\ prompts = <<>>
          /\ fault # "get_prompts"
          /\ ReachedChatLoop
          /\ messages[1] = Message(SYSTEM, SYSTEM_PROMPT, None, <<>>)
          /\ turn_state = "none" => Len(messages) = 1
          /\ Len(messages) >= 2 =>
                messages[2].content \in {Strip(line) : line \in UserLines}

\* Both optional listings raised and the first turn of the chat loop runs.
C16_Witness ==
    /\ {"list_resources", "list_prompts"} \subseteq failed
    /\ pc = "await_model"
    /\ Len(messages) = 2

\* C17: when list_tools raised, the exception left the body of main(): the
\* chat loop is never entered, no request goes to the model, no history is
\* built, and main() ends with the exception after the session was released.
C17_ToolDiscoveryFatal ==
    "list_tools" \in failed =>
        /\ fault = "get_tools"
        /\ exc
        /\ pc \in {"aexit", "exited", "crashed"}
        /\ turn_state = "none"
        /\ responses = 0
        /\ messages = <<>>
        /\ tools = <<>>
        /\ MainEnded =>
              /\ pc = "crashed"
              /\ closes = 1
              /\ session_exits = 1
              /\ ~wrapper_open

\* list_tools raised and main() has ended with the session released.
C17_Witness ==
    /\ "list_tools" \in failed
    /\ pc = "crashed"
    /\ closes = 1
    /\ ~wrapper_open
    /\ ~stream_open

\* The step in which a turn fails: its model request or stream raised.
TurnFails == turn_state # "failed" /\ turn_state' = "failed"

\* C18: when the model stream fails during a turn, main() prints the error,
\* no exception leaves the body, the session stays open and unreleased, and
\* main() is back at input() for the next line.
C18_TurnFailureSurvives ==
    [][TurnFails =>
          /\ errors_printed' = errors_printed + 1
          /\ pc' = "input"
          /\ ~exc'
          /\ fault' = None
          /\ session' # None
          /\ wrapper_open' /\ stream_open'
          /\ closes' = 0]_vars

\* After a failed turn the next line was read and its turn awaits the model.
C18_Witness ==
    /\ errors_printed = 1
    /\ turn_state = "running"
    /\ pc = "await_model"
    /\ Len(turn_base) >= 3

\* The calls logged for Dispatching-Tools cycle i of the running turn.
CallsOfCycle(i) == LET Mine(c) == c.cycle = i IN SelectSeq(calls, Mine)

RECURSIVE CompletedCycles(_)
\* The messages of the turn's first n cycles: each response's Assistant
\* message followed by the ToolResult of each of its calls.
CompletedCycles(n) ==
    IF n = 0 THEN <<>>
    ELSE LET made == CallsOfCycle(n)
         IN  CompletedCycles(n - 1) \o <<TurnMessage(n)>>
                 \o [j \in 1..Len(made) |-> ToolMsg(made[j].tool_call, made[j].res)]

\* C19: when a turn has failed, history is the messages before the turn with
\* the user's message, then the Assistant and ToolResult messages of the
\* cycles completed before the failure, each as it was appended, and nothing
\* of the failed response.
C19_FailedTurnKeepsHistory ==
    turn_state = "failed" =>
        /\ Len(streams) = dispatch_cycles
        /\ \A i \in 1..Len(streams) :
              Len(CallsOfCycle(i)) = Len(TurnMessage(i).tool_calls)
        /\ messages = turn_base \o CompletedCycles(Len(streams))
        /\ turn_base[Len(turn_base)].role = USER

\* A turn failed at its second model request, after a cycle of two calls.
C19_Witness ==
    /\ turn_state = "failed"
    /\ dispatch_cycles = 1
    /\ Len(calls) = 2
    /\ Len(messages) = Len(turn_base) + 3
    /\ messages[Len(messages)].role = TOOL

\* history is a prefix of later
IsPrefix(history, later) ==
    /\ Len(history) <= Len(later)
    /\ SubSeq(later, 1, Len(history)) = history

\* C20: every step leaves history as a prefix of the new history.
C20_AppendOnlyHistory == [][IsPrefix(messages, messages')]_vars

\* A session with prompt messages, a failed turn and then an answered turn.
C20_Witness ==
    /\ Len(prompts) = 2
    /\ errors_printed = 1
    /\ turn_state = "returned"
    /\ Len(messages) = 6

\* ------------------------------------------------ Message.to_dict on its own
\* main() and the clients are not running: a unit specification calls one
\* function on inputs drawn from a bounded set.
NoApp ==
    /\ pc = "idle"
    /\ session = None
    /\ streams_context = None
    /\ session_context = None
    /\ stream_open = FALSE
    /\ wrapper_open = FALSE
    /\ exc = FALSE
    /\ tools = <<>>
    /\ messages = <<>>
    /\ NoTurn
    /\ NoCollect
    /\ NoClientLog
    /\ NoMainLog

\* One tool call as _collect_tool_calls emits it.
ToolCallA == CollectToolCalls(<<DeltaA1>>)[1]

\* The messages to_dict is called on: every role, and each optional field
\* None, empty or set.
MessageDomain ==
    [role : {SYSTEM, USER, AI, TOOL},
     content : {None, "", "hello"},
     tool_call_id : {None, "", "call_a"},
     name : {None, "", "agent"},
     tool_calls : {<<>>, <<ToolCallA>>}]

InitToDict ==
    /\ NoApp
    /\ to_dict_self \in MessageDomain
    /\ to_dict_result = <<>>
    /\ stream_chunks = <<>>
    /\ stream_result = NoMessage
    /\ unit_pc = "call"
    /\ KeyProvided

\* message.to_dict() runs and returns.
ToDictCall ==
    /\ unit_pc = "call"
    /\ to_dict_result' = ToDict(to_dict_self)
    /\ unit_pc' = "done"
    /\ UNCHANGED <<appVars, turnVars, collectVars, clientVars, mainVars,
                   to_dict_self, stream_chunks, stream_result, envVars>>

NextToDict == ToDictCall

SpecToDict == InitToDict /\ [][NextToDict]_vars

\* ---------------------------------------------------------------------- C21
\* The field of a message is present: it was given a value, not left None
\* (tool_calls: not left without entries).
FieldSet(m, k) == IF k = "tool_calls" THEN m[k] # <<>> ELSE m[k] # None

\* C21: a message with only role and text set serializes to exactly the keys
\* role and content; the serialized object always has role, has content, name,
\* tool_call_id or tool_calls only when that field is present, and no null.
C21_SerializationOmission ==
    unit_pc = "done" =>
        /\ "role" \in DOMAIN to_dict_result
        /\ to_dict_result["role"] = to_dict_self.role
        /\ \A k \in DOMAIN to_dict_result \ {"role"} :
               /\ FieldSet(to_dict_self, k)
               /\ to_dict_result[k] = to_dict_self[k]
        /\ (/\ FieldSet(to_dict_self, "content")
            /\ \A k \in {"name", "tool_call_id", "tool_calls"} :
                   ~FieldSet(to_dict_self, k))
               => DOMAIN to_dict_result = {"role", "content"}

\* ---------------------------------------------------------------------- C22
\* C22: get_tools returns one wrapped entry per discovered tool, in discovery
\* order, each {type: "function", function: {name, description, parameters}}
\* with parameters the tool's inputSchema unchanged; no tool, empty list.
C22_ToolSchemaTransformation ==
    (last_call.method = "get_tools" /\ ~last_call.res.raised) =>
        LET listed == last_call.answer.value
            dial_tools == last_call.res.value
        IN  /\ Len(dial_tools) = Len(listed)
            /\ \A p \in 1..Len(listed) :
                   /\ DOMAIN dial_tools[p] = {"type", "function"}
                   /\ dial_tools[p].type = "function"
                   /\ DOMAIN dial_tools[p].function
                          = {"name", "description", "parameters"}
                   /\ dial_tools[p].function.name = listed[p].name
                   /\ dial_tools[p].function.description = listed[p].description
                   /\ dial_tools[p].function.parameters = listed[p].inputSchema
            /\ listed = <<>> => dial_tools = <<>>

\* C22 witness: get_tools returned the wrapping of two discovered tools.
C22_Witness ==
    /\ last_call.method = "get_tools"
    /\ ~last_call.res.raised
    /\ Len(last_call.answer.value) = 2
    /\ last_call.answer.value[1].name # last_call.answer.value[2].name
    /\ Len(last_call.res.value) = 2

\* ---------------------------------------------------------------------- C23
\* The texts of the text segments of a prompt, in order.
TextSegments(msgs) ==
    LET IsText(message) == message.content.kind \in {"text", "str"}
        texts == SelectSeq(msgs, IsText)
    IN  [p \in 1..Len(texts) |-> texts[p].content.text]

RECURSIVE JoinedByNewline(_)
\* s1 + "\n" + ... + "\n" + sn: a newline only between consecutive segments
JoinedByNewline(texts) ==
    IF texts = <<>> THEN ""
    ELSE IF Len(texts) = 1 THEN texts[1]
    ELSE texts[1] \o "\n" \o JoinedByNewline(Tail(texts))

\* C23: get_prompt returns the text segments of the prompt in order, joined by
\* a newline that stands only between consecutive segments; a segment that is
\* not text contributes nothing.
C23_PromptJoinedByNewline ==
    (last_call.method = "get_prompt" /\ ~last_call.res.raised) =>
        last_call.res.value = JoinedByNewline(TextSegments(last_call.answer.value))

\* ---------------------------------------------------------------------- C25
\* C25: from the step that cancels a turn on, history is what it was (no
\* ToolResult for the tool call that was awaited, nothing else appended), and
\* no model request and no tool invocation is made any more.
C25_CancelAbandonsTurn ==
    [][(turn_state = "cancelled" \/ turn_state' = "cancelled") =>
           /\ messages' = messages
           /\ responses' = responses
           /\ await_cycles' = await_cycles
           /\ calls' = calls
           /\ pc' \in {"aexit", "exited", "crashed"}]_vars

\* C25 witness: a turn was cancelled while its tool call was awaited, main()
\* has ended, and the Assistant message's call has no ToolResult in history.
C25_Witness ==
    /\ turn_state = "cancelled"
    /\ MainEnded
    /\ fault = "cancel"
    /\ calls # <<>>
    /\ calls[Len(calls)].sent
    /\ ~calls[Len(calls)].answered
    /\ messages[Len(messages)].role = AI
    /\ messages[Len(messages)].tool_calls # <<>>

\* -------------------------------- get_completion under the event loop's fairness
\* The event loop runs get_completion whenever it can run: the pass of the for
\* loop up to its await is taken (ToolInvoke), and the model answers every
\* request (StreamResponse or StreamFail).  Nothing makes the tool provider
\* answer: ToolReturn is its step, and the code sets no timeout on the await.
SpecDispatch ==
    /\ InitCompletion
    /\ [][NextCompletion]_vars
    /\ WF_vars(ToolInvoke)
    /\ WF_vars(StreamResponse \/ StreamFail)

\* ---------------------------------------------------------------------- C24
\* C24: every tool invocation that was started ends: the await of the tool's
\* answer is left, with a ToolResult for the call's id appended to history and
\* the loop at its next call or back at the model.
C24_DispatchNeverHangs ==
    (pc = "tool_wait") ~>
        (/\ pc \in {"call_tool", "await_model"}
         /\ messages[Len(messages)].role = TOOL
         /\ messages[Len(messages)].tool_call_id = calls[Len(calls)].tool_call.id)

\* ---------------------------------------------------------------------- C26
\* C26: when DIAL_API_KEY is not set, startup ends with an error: main() never
\* builds its history, never reaches input(), no request goes to the model,
\* and main() ends only with an exception.
C26_MissingKeyFatal ==
    dial_api_key = None =>
        /\ pc \notin {"get_prompts", "input", "await_model", "call_tool", "tool_wait"}
        /\ messages = <<>>
        /\ turn_state = "none"
        /\ responses = 0
        /\ MainEnded => exc

\* ------------------------- _collect_tool_calls on deltas of several ids and names
\* The deltas of a stream in which an index is given one id and name, another,
\* or none, with or without an argument chunk.
FragmentDomain ==
    {Delta(index, id, name, arguments, IF id = None THEN None ELSE "function") :
        index \in {0, 1}, id \in {None, "call_a", "call_b"},
        name \in {None, "get_user", "search"}, arguments \in {None, "{"}}

FragmentSeqs == UNION {[1..n -> FragmentDomain] : n \in 0..MaxFragments}

InitFragments ==
    /\ pc = "idle"
    /\ session = None
    /\ streams_context = None
    /\ session_context = None
    /\ stream_open = FALSE
    /\ wrapper_open = FALSE
    /\ exc = FALSE
    /\ tools = <<>>
    /\ messages = <<>>
    /\ NoTurn
    /\ tool_deltas \in FragmentSeqs
    /\ tool_dict = <<>>
    /\ collected = <<>>
    /\ collect_pc = "call"
    /\ NoUnit
    /\ KeyProvided
    /\ NoClientLog
    /\ NoMainLog

SpecFragments == InitFragments /\ [][NextCollect]_vars

\* ---------------------------------------------------------------------- C27
\* The positions of the deltas with index i that carry an id, and a name.
IdPositions(i) ==
    {p \in 1..Len(tool_deltas) :
        tool_deltas[p].index = i /\ Truthy(tool_deltas[p].id)}
NamePositions(i) ==
    {p \in 1..Len(tool_deltas) :
        tool_deltas[p].index = i /\ Truthy(tool_deltas[p].name)}

\* The greatest position of a non-empty set of positions.
LastPosition(positions) == CHOOSE p \in positions : \A q \in positions : q <= p

\* C27: for every index, the reconstructed call's id is the id of the last
\* delta with that index that carries an id, its name the name of the last
\* that carries a name, and its argument text the chunks appended in arrival
\* order; with no delta carrying an id (a name), the call has none.
C27_LastIdAndNameWin ==
    collect_pc = "done" =>
        \A p \in 1..Len(tool_dict) :
            LET i == tool_dict[p].key
                call == tool_dict[p].val
            IN  /\ call.id = IF IdPositions(i) = {} THEN None
                             ELSE tool_deltas[LastPosition(IdPositions(i))].id
                /\ call.function.name
                       = IF NamePositions(i) = {} THEN None
                         ELSE tool_deltas[LastPosition(NamePositions(i))].name
                /\ call.function.arguments = ConcatArguments(DeltasOf(i))
                /\ collected[p] = call

\* C27 witness: index 0 is given id call_a and name get_user with an argument
\* chunk, then id call_b and another chunk with no name: the call has the
\* later id, the earlier name and both chunks.
C27_Witness ==
    /\ collect_pc = "done"
    /\ tool_deltas = <<Delta(0, "call_a", "get_user", "{", "function"),
                       Delta(0, "call_b", None, "{", "function")>>
    /\ Len(collected) = 1
    /\ collected[1].id = "call_b"
    /\ collected[1].function.name = "get_user"
    /\ collected[1].function.arguments = "{{"

\* ------------------------------------------------ _stream_response on its own
\* The chunks of a stream: each with no text, empty text or one of two texts,
\* and with no tool-call delta or one, of index 0 or 1.
ChunkDomain ==
    {Chunk(content, tool_calls) :
        content \in {None, "", "a", "b"},
        tool_calls \in {<<>>, <<DeltaA1>>, <<DeltaB>>}}

ChunkSeqs == UNION {[1..n -> ChunkDomain] : n \in 0..MaxChunks}

InitStream ==
    /\ NoApp
    /\ to_dict_self = NoMessage
    /\ to_dict_result = <<>>
    /\ stream_chunks \in ChunkSeqs
    /\ stream_result = NoMessage
    /\ unit_pc = "call"
    /\ KeyProvided

\* _stream_response reads the stream to its end and returns.
StreamCall ==
    /\ unit_pc = "call"
    /\ stream_result' = StreamResponseMessage(stream_chunks)
    /\ unit_pc' = "done"
    /\ UNCHANGED <<appVars, turnVars, collectVars, clientVars, mainVars,
                   to_dict_self, to_dict_result, stream_chunks, envVars>>

NextStream == StreamCall

SpecStream == InitStream /\ [][NextStream]_vars

\* ---------------------------------------------------------------------- C28
RECURSIVE ContentInArrivalOrder(_)
\* The contentChunk values of the fragments joined in arrival order; only
\* the content of a chunk is read.
ContentInArrivalOrder(contents) ==
    IF contents = <<>> THEN ""
    ELSE (IF contents[1] = None THEN "" ELSE contents[1])
             \o ContentInArrivalOrder(Tail(contents))

\* C28: the Assistant message's text is the content of the chunks of the
\* response joined in arrival order, whatever tool-call deltas the chunks
\* carry, of whatever index, between and beside the content.
C28_SingleContentStream ==
    unit_pc = "done" =>
        /\ stream_result.role = AI
        /\ stream_result.content
               = ContentInArrivalOrder([p \in 1..Len(stream_chunks) |->
                                           stream_chunks[p].content])

\* C28 witness: text, a tool-call delta of index 1 with text beside it, and a
\* delta of index 0 between two texts.
C28_Witness ==
    /\ unit_pc = "done"
    /\ stream_chunks = <<Chunk("a", <<DeltaB>>), Chunk(None, <<DeltaA1>>),
                         Chunk("b", <<>>)>>
    /\ stream_result.content = "ab"
    /\ Len(stream_result.tool_calls) = 2

\* ---------------------------------------------------------------------- C29
\* C29: the aggregated list has one call for every index that occurs in a
\* tool-call delta, also when no delta of the index supplied an id, a name or
\* an argument chunk.
C29_IncompleteCallsEmitted ==
    collect_pc = "done" =>
        /\ \A i \in DeltaIndexes :
              Cardinality({p \in 1..Len(tool_dict) : tool_dict[p].key = i}) = 1
        /\ Len(collected) = Cardinality(DeltaIndexes)

\* ---------------------------------------------------------------------- C30
\* The provider answered the call with at least one content item.
InvocationSucceeded(c) ==
    /\ c.sent
    /\ c.answered
    /\ ~c.reply.raises
    /\ c.reply.content # <<>>

\* C30: the ToolResult of a call the provider answered with content has the
\* call's id as tool_call_id and, as text, the first content item's text when
\* that item is a text item and the item as a string otherwise; no later item
\* is part of it.
C30_FirstContentItemOnly ==
    \A q \in 1..Len(calls) :
        InvocationSucceeded(calls[q]) =>
            LET first == calls[q].reply.content[1]
                tool_msg == ResultOf(calls[q])
            IN  /\ tool_msg.role = TOOL
                /\ tool_msg.tool_call_id = calls[q].tool_call.id
                /\ tool_msg.content
                       = IF first.kind = "text" THEN first.text ELSE first.repr

\* C30 witness: the provider answered with two text items, and the ToolResult
\* has the first one's text.
C30_Witness ==
    \E q \in 1..Len(calls) :
        /\ InvocationSucceeded(calls[q])
        /\ Len(calls[q].reply.content) = 2
        /\ calls[q].reply.content[2].text # calls[q].reply.content[1].text
        /\ ResultOf(calls[q]).content = calls[q].reply.content[1].text
        /\ ResultOf(calls[q]).tool_call_id = calls[q].tool_call.id

\* ====================================================================
\* Properties of the requests sent to the model (Spec)
\* ====================================================================
\* get_completion is at its await of _stream_response: the request built from
\* messages and self.tools is the one sent to the model.
ModelRequested == pc = "await_model"

\* The request sent to the model in this state.
SentRequest == Request(messages, tools)

\* The value of a key of a wire object, None when the key is absent.
WireValue(w, k) == IF k \in DOMAIN w THEN w[k] ELSE None

\* The number of tool calls of a wire object.
WireCalls(w) == IF "tool_calls" \in DOMAIN w THEN Len(w["tool_calls"]) ELSE 0

C32_TextOrToolCalls ==
    \A p \in 1..Len(messages) :
        messages[p].role = AI =>
            ~(Truthy(messages[p].content) /\ messages[p].tool_calls # <<>>)

\* ---------------------------------------------------------------------- C33
\* C33: in every request sent to the model, each entry of an Assistant
\* message's tool_calls has an id, the type "function" and a function name,
\* none of them null.
C33_NoNullInToolCalls ==
    ModelRequested =>
        LET sent == SentRequest.messages
        IN  \A p \in 1..Len(sent) :
                \A j \in 1..WireCalls(sent[p]) :
                    LET entry == sent[p]["tool_calls"][j]
                    IN  /\ entry.id # None
                        /\ entry.type = "function"
                        /\ entry.function.name # None

\* ---------------------------------------------------------------------- C34
\* DialClient is built: main() is past its construction.
CatalogBuilt == pc \notin {"start", "get_resources", "get_tools"}

\* C34: once the DialClient is built no step changes its tool list, and
\* every request that goes to the model hands it that list.
C34_CatalogImmutable ==
    [][/\ CatalogBuilt => tools' = tools
       /\ request' # NoRequest => request'.tools = tools]_vars

\* C34 witness: the second request of a turn has gone out, after a tool call
\* that failed, with a catalog of two tools.
C34_Witness ==
    /\ await_cycles = 2
    /\ Len(tools) = 2
    /\ calls # <<>>
    /\ calls[Len(calls)].res.raised
    /\ request.tools = tools

\* ---------------------------------------------------------------------- C35
\* The tool invocations of the turn that are awaited on the session handle.
InFlight == {q \in 1..Len(calls) : calls[q].sent /\ ~calls[q].answered}

\* C35: at most one tool invocation is in flight, and it is the latest one;
\* an invocation starts only when every earlier one has returned or raised;
\* a request to the model is awaited or made, and any request is put on the
\* session handle, only while no tool invocation is in flight.
C35_OneRequestInFlight ==
    [][/\ InFlight' \subseteq {Len(calls')}
       /\ pc' \in {"await_model", "call_tool", "input"} => InFlight' = {}
       /\ Len(calls') > Len(calls) => InFlight = {}
       /\ request' # request => InFlight = {} /\ InFlight' = {}
       /\ requests' # requests => InFlight = {} /\ pc # "await_model"]_vars

\* C35 witness: the second invocation of a two-call response is awaited, the
\* first has been answered.
C35_Witness ==
    /\ pc = "tool_wait"
    /\ Len(calls) = 2
    /\ calls[1].sent
    /\ calls[1].answered
    /\ InFlight = {2}

\* ---------------------------------------------------------------------- C36
\* Every response the model has given in the turn requested tools.
EveryResponseRequestedTools ==
    /\ streams # <<>>
    /\ \A i \in 1..Len(streams) : StreamResponseMessage(streams[i]).tool_calls # <<>>

\* C36: while every response of the turn has requested tools the turn goes
\* on, it has neither returned nor failed, and it has entered one
\* Dispatching-Tools cycle for each of these responses, however many.
C36_NoCapOnCycles ==
    EveryResponseRequestedTools =>
        /\ turn_state = "running"
        /\ dispatch_cycles = Len(streams)

\* ---------------------------------------------------------------------- C37
\* The Assistant messages the running turn has put into history, in order.
TurnAssistants ==
    LET IsAssistant(m) == m.role = AI
    IN  SelectSeq(SubSeq(messages, Len(turn_base) + 1, Len(messages)), IsAssistant)

C38_ToolResultFields ==
    \A q \in 1..Len(calls) :
        calls[q].answered =>
            LET w == ToDict(messages[calls[q].at])
            IN  /\ w["role"] = TOOL
                /\ "tool_call_id" \in DOMAIN w
                /\ "content" \in DOMAIN w
                /\ w["tool_call_id"] = calls[q].tool_call.id

\* ---------------------------------------------------------------------- C39
\* The history main() has built from the discovered prompts: the System
\* prompt, then one User message per prompt, in discovery order, holding the
\* prompt's description, or its name when it has none.
StartHistory(discovered) ==
    <<Message(SYSTEM, SYSTEM_PROMPT, None, <<>>)>> \o
        [p \in 1..Len(discovered) |->
            Message(USER,
                    IF discovered[p].description \notin {None, ""}
                    THEN discovered[p].description ELSE discovered[p].name,
                    None, <<>>)]

\* The chat loop waits for input and no turn has been started yet.
AtFirstInput == pc = "input" /\ turn_state = "none"

\* C39: at the first input() history is the System prompt and one User
\* message per discovered prompt, the System prompt alone when prompt
\* discovery failed or listed nothing; a step from input() either changes
\* neither history nor session and makes no model request (an empty line, a
\* quit command, which ends the loop), or appends the one User message of a
\* line that is neither and starts a turn.
C39_StartHistoryAndQuietInput ==
    [][/\ AtFirstInput' =>
             /\ messages' = StartHistory(prompts')
             /\ ("list_prompts" \in failed' \/ prompts' = <<>>) =>
                    messages' = <<Message(SYSTEM, SYSTEM_PROMPT, None, <<>>)>>
       /\ pc = "input" =>
             \/ /\ messages' = messages
                /\ session' = session
                /\ request' = request
                /\ responses' = responses
                /\ pc' \in {"input", "aexit"}
             \/ \E line \in UserLines :
                   /\ Strip(line) # ""
                   /\ Lower(Strip(line)) \notin QuitCommands
                   /\ messages' = Append(messages,
                                         Message(USER, Strip(line), None, <<>>))
                   /\ pc' = "await_model"]_vars

\* C39 witness: the first input() after two prompts were discovered, one of
\* them without a description.
C39_Witness ==
    /\ AtFirstInput
    /\ Len(prompts) = 2
    /\ prompts[2].description = None
    /\ Len(messages) = 3
    /\ messages[3].content = prompts[2].name

====
